---- MODULE Spec2Model ----
(***************************************************************************)
(* Model of salt/states/restconf.py: the state function config_manage and  *)
(* the helper class _restDiff.                                             *)
(*                                                                         *)
(* One invocation of config_manage is a sequence of steps separated by its *)
(* device calls: Call (argument conversion and validation), GetPrimary     *)
(* (restconf.get_data(uri)), GetInit (restconf.get_data(init_uri)),        *)
(* Compare (json normalisation, equality test, test-mode branch) and       *)
(* SetData (restconf.set_data and the construction of the result).         *)
(*                                                                         *)
(* Python values are tagged records so that values of different Python     *)
(* types can be compared: a key or leaf is [t, i, s] with t the type name, *)
(* i the integer value and s the string value.                             *)
(***************************************************************************)
EXTENDS Integers, Sequences, FiniteSets, TLC

(* ------------------------------ bounds --------------------------------- *)

MaxEntries == 2
MaxInt == 2
MaxStrKeys == 1

(* --------------------------- Python values ----------------------------- *)

PyStr(x) == [t |-> "str", i |-> 0, s |-> x]
PyInt(n) == [t |-> "int", i |-> n, s |-> ""]
PyNone == [t |-> "NoneType", i |-> 0, s |-> ""]

\* str(x) for the argument types used here
str(x) ==
    CASE x.t = "str" -> x.s
      [] x.t = "int" -> ToString(x.i)
      [] x.t = "NoneType" -> "None"

KeyNames == <<"x", "y", "z", "w">>
StrKeys == {PyStr(KeyNames[n]) : n \in 1..MaxStrKeys}
IntKeys == {PyInt(1)}
\* keys a caller may use in config; keys a JSON body from the device may have
ConfigKeys == StrKeys \cup IntKeys
BodyKeys == StrKeys \cup {PyStr(ToString(k.i)) : k \in IntKeys}
Leaves == {PyInt(n) : n \in 1..MaxInt} \cup {PyStr(ToString(1))}

EmptyDict == [k \in {} |-> PyNone]
DictsOver(K) ==
    UNION {[D -> Leaves] : D \in {S \in SUBSET K : Cardinality(S) <= MaxEntries}}

\* config argument: a dict, or a value whose type is not dict
PyDict(d) == [t |-> "dict", d |-> d]
ConfigArgs ==
    {PyDict(d) : d \in DictsOver(ConfigKeys)}
      \cup {[t |-> "OrderedDict", d |-> [k \in {PyStr("x")} |-> PyInt(1)]],
            [t |-> "NoneType", d |-> EmptyDict]}
Bodies == DictsOver(BodyKeys)

(* --------------------- json.loads(json.dumps(config)) ------------------ *)

\* json.dumps writes an int key as its decimal text; str keys are kept
JsonKey(k) == IF k.t = "int" THEN PyStr(ToString(k.i)) ELSE k

\* variant: config is used as it was passed, without the JSON round trip
JsonRoundTrip_identity(d) == d

JsonRoundTrip(d) ==
    [k2 \in {JsonKey(k) : k \in DOMAIN d} |->
        d[CHOOSE k \in DOMAIN d : JsonKey(k) = k2]]

(* ------------------------------ _restDiff ------------------------------ *)

\* DeepDiff(t1, t2) on flat dicts; a report key is present iff its set is
\* non-empty
DeepDiff(t1, t2) ==
    [dictionary_item_added |-> (DOMAIN t2) \ (DOMAIN t1),
     dictionary_item_removed |-> (DOMAIN t1) \ (DOMAIN t2),
     values_changed |->
        {[path |-> k, old_value |-> t1[k], new_value |-> t2[k]] :
            k \in {j \in (DOMAIN t1) \cap (DOMAIN t2) :
                     t1[j].t = t2[j].t /\ t1[j] # t2[j]}},
     type_changes |->
        {[path |-> k, old_value |-> t1[k], new_value |-> t2[k]] :
            k \in {j \in (DOMAIN t1) \cap (DOMAIN t2) : t1[j].t # t2[j].t}}]

restDiff(current_dict, past_dict) == DeepDiff(current_dict, past_dict)

\* a view is None or the str() of a DeepDiff report entry
NoneView == [t |-> "NoneType", paths |-> {}, items |-> {}]
StrOfPaths(S) == [t |-> "str", paths |-> S, items |-> {}]
StrOfItems(S) == [t |-> "str", paths |-> {}, items |-> S]

added(diff) ==
    IF diff.dictionary_item_added # {}
    THEN StrOfPaths(diff.dictionary_item_added)
    ELSE NoneView

removed(diff) ==
    IF diff.dictionary_item_removed # {}
    THEN StrOfPaths(diff.dictionary_item_removed)
    ELSE NoneView

changed(diff) ==
    IF diff.values_changed # {}
    THEN StrOfItems(diff.values_changed)
    ELSE NoneView

(* ------------------------------ device --------------------------------- *)

ReadStatuses == {200, 404}
WriteStatuses == {200, 201, 204, 500}
ReadOK == {200}
WriteOK == {201, 200, 204}

\* a set_data response: status, which of "dict"/"body" it carries, the text
WriteResponses ==
    [status : WriteStatuses, keys : SUBSET {"dict", "body"}, text : {"bad"}]

NoWhy == [t |-> "NoneType", text |-> ""]
Why(resp) ==
    IF "dict" \in resp.keys THEN [t |-> "dict", text |-> resp.text]
    ELSE IF "body" \in resp.keys THEN [t |-> "body", text |-> resp.text]
    ELSE NoWhy

(* ------------------------------ state ---------------------------------- *)

VARIABLES
    pc,                 \* position of the invocation
    name, uri, method,  \* arguments after str()
    config, init_uri, init_method,
    test,               \* __opts__["test"]
    ret,                \* the result dict being built
    found_working_uri, uri_used, request_uri, request_method,
    existing, dict_config,
    returned,           \* "pending", "False" (bare bool) or "ret"
    calls,              \* device calls of this invocation, in order
    device,             \* what the device holds at each URI (SpecDev only)
    prev                \* arguments of an earlier call that ended applied

vars == <<pc, name, uri, method, config, init_uri, init_method, test, ret,
          found_working_uri, uri_used, request_uri, request_method,
          existing, dict_config, returned, calls, device, prev>>

devvars == <<device, prev>>
args == <<name, uri, method, config, init_uri, init_method, test>>
locals == <<found_working_uri, uri_used, request_uri, request_method, existing>>

NoComment == [text |-> "", s |-> 0, w |-> NoWhy, u |-> ""]
Comment(text) == [text |-> text, s |-> 0, w |-> NoWhy, u |-> ""]
NoChanges == [k \in {} |-> NoneView]
Unbound == [name |-> "", result |-> "unbound", changes |-> NoChanges,
            comment |-> NoComment]

\* entries of the call log: what was called, with what, and what came back
DevUris == {PyStr("/a"), PyStr("/b"), PyNone}
NoDevice == [u \in DevUris |-> [status |-> 404, body |-> EmptyDict]]
NoPrev == [set |-> FALSE, name |-> "", uri |-> "", method |-> "",
           config |-> [t |-> "NoneType", d |-> EmptyDict],
           init_uri |-> PyNone, init_method |-> "PATCH"]

GetCall(u, status) ==
    [op |-> "get_data", uri |-> u, method |-> "", payload |-> EmptyDict,
     status |-> status, keys |-> {}, text |-> ""]
SetCall(u, m, payload, resp) ==
    [op |-> "set_data", uri |-> u, method |-> m, payload |-> payload,
     status |-> resp.status, keys |-> resp.keys, text |-> resp.text]

Init ==
    /\ pc = "idle"
    /\ name = "" /\ uri = "" /\ method = ""
    /\ config = [t |-> "NoneType", d |-> EmptyDict]
    /\ init_uri = PyNone /\ init_method = "PATCH"
    /\ test = FALSE
    /\ ret = Unbound
    /\ found_working_uri = FALSE /\ uri_used = ""
    /\ request_uri = PyStr("") /\ request_method = ""
    /\ existing = EmptyDict /\ dict_config = EmptyDict
    /\ returned = "pending"
    /\ calls = <<>>
    /\ device = NoDevice
    /\ prev = NoPrev

(* ---------------------------- config_manage ---------------------------- *)

\* variant: the type test of config is left out of the validation
ValidationError_no_config(u, n, m, c) ==
    \/ u = ""
    \/ n = ""
    \/ m = ""

\* the four validation tests; each one logs and returns False
ValidationError(u, n, m, c) ==
    \/ u = ""
    \/ n = ""
    \/ m = ""
    \/ ~(c.t = "dict")

\* variant: every read status counts as a success
ReadSucceeded_any(status) == TRUE

ReadSucceeded(status) == status \in ReadOK

PrimaryTarget(u, m) == [used |-> "Primary", uri |-> PyStr(u), method |-> m]

\* variant: the write through init_uri always uses the default method
InitTarget_default_method(iu, im) ==
    [used |-> "init", uri |-> iu, method |-> "PATCH"]

InitTarget(iu, im) == [used |-> "init", uri |-> iu, method |-> im]

\* variant: init_uri is read whether or not the primary read succeeded
TryInit_always(found) == TRUE

TryInit(found) == ~found

\* variant: the unresolved return leaves the comment empty
Unresolved_no_comment(r) == [r EXCEPT !.result = "False"]

Unresolved(r) ==
    [r EXCEPT !.result = "False",
              !.comment = Comment("restconf could not find a working URI to get initial config")]

\* variant: the equality test never succeeds
ConfigEqual_never(e, d) == FALSE

ConfigEqual(e, d) == e = d

\* variant: the test-mode branch is never taken
TestMode_never(t) == FALSE

TestMode(t) == t = TRUE

WriteSucceeded(status) == status \in WriteOK

\* variant: the PATCH suppression of the removed view is left out
SuppressRemoved_never(m) == FALSE

SuppressRemoved(m) == m = "PATCH"

\* variant: the two dicts are handed to the diff in the other order
DiffChanges_swapped(e, d) ==
    LET diff == restDiff(d, e)
    IN  [new |-> added(diff), removed |-> removed(diff),
         changed |-> changed(diff)]

DiffChanges(e, d) ==
    LET diff == restDiff(e, d)
    IN  [new |-> added(diff), removed |-> removed(diff),
         changed |-> changed(diff)]

\* variant: the failure comment leaves out the URI source
FailureComment_no_source(resp, used) ==
    [text |-> "failed to add / modify config. API Statuscode: {s}, API Response: {w}, URI:{u}",
     s |-> resp.status, w |-> Why(resp), u |-> ""]

FailureComment(resp, used) ==
    [text |-> "failed to add / modify config. API Statuscode: {s}, API Response: {w}, URI:{u}",
     s |-> resp.status, w |-> Why(resp), u |-> used]

\* entry: str() conversions, validation, initial ret and locals
Call(n, u, m, c, iu, im, t) ==
    /\ pc = "idle"
    /\ uri' = str(u)
    /\ name' = str(n)
    /\ method' = str(m)
    /\ config' = c
    /\ init_uri' = iu
    /\ init_method' = im
    /\ test' = t
    /\ calls' = <<>>
    /\ found_working_uri' = FALSE
    /\ uri_used' = ""
    /\ request_uri' = PyStr("")
    /\ request_method' = ""
    /\ existing' = EmptyDict
    /\ dict_config' = EmptyDict
    /\ IF ValidationError(str(u), str(n), str(m), c)
       THEN /\ ret' = Unbound
            /\ returned' = "False"
            /\ pc' = "done"
       ELSE /\ ret' = [name |-> str(n), result |-> "False",
                       changes |-> NoChanges, comment |-> NoComment]
            /\ returned' = "pending"
            /\ pc' = "get_primary"

\* existing_raw = restconf.get_data(uri) and the test of its status
GetPrimary(status, body) ==
    /\ pc = "get_primary"
    /\ calls' = Append(calls, GetCall(PyStr(uri), status))
    /\ IF ReadSucceeded(status)
       THEN /\ existing' = body
            /\ found_working_uri' = TRUE
            /\ uri_used' = PrimaryTarget(uri, method).used
            /\ request_uri' = PrimaryTarget(uri, method).uri
            /\ request_method' = PrimaryTarget(uri, method).method
       ELSE UNCHANGED locals
    /\ pc' = IF TryInit(found_working_uri') THEN "get_init" ELSE "compare"
    /\ UNCHANGED <<args, ret, dict_config, returned>>

\* existing_raw_init = restconf.get_data(init_uri), and the unresolved return
GetInit(status, body) ==
    /\ pc = "get_init"
    /\ calls' = Append(calls, GetCall(init_uri, status))
    /\ IF ReadSucceeded(status)
       THEN /\ existing' = body
            /\ found_working_uri' = TRUE
            /\ uri_used' = InitTarget(init_uri, init_method).used
            /\ request_uri' = InitTarget(init_uri, init_method).uri
            /\ request_method' = InitTarget(init_uri, init_method).method
       ELSE UNCHANGED locals
    /\ IF ~found_working_uri'
       THEN /\ ret' = Unresolved(ret)
            /\ returned' = "ret"
            /\ pc' = "done"
       ELSE /\ pc' = "compare"
            /\ UNCHANGED <<ret, returned>>
    /\ UNCHANGED <<args, dict_config>>

\* json normalisation, equality test and the test-mode branch
Compare ==
    /\ pc = "compare"
    /\ dict_config' = JsonRoundTrip(config.d)
    /\ IF ConfigEqual(existing, dict_config')
       THEN /\ ret' = [ret EXCEPT !.result = "True",
                                  !.comment = Comment("Config is already set")]
            /\ returned' = "ret"
            /\ pc' = "done"
       ELSE IF TestMode(test)
       THEN /\ ret' = [ret EXCEPT !.result = "None",
                                  !.comment = Comment("Config will be added"),
                                  !.changes = DiffChanges(existing, dict_config')]
            /\ returned' = "ret"
            /\ pc' = "done"
       ELSE /\ pc' = "set_data"
            /\ UNCHANGED <<ret, returned>>
    /\ UNCHANGED <<args, locals, calls>>

\* resp = restconf.set_data(request_uri, request_method, dict_config)
SetData(resp) ==
    /\ pc = "set_data"
    /\ calls' = Append(calls,
                  SetCall(request_uri, request_method, dict_config, resp))
    /\ IF WriteSucceeded(resp.status)
       THEN ret' = [ret EXCEPT
                !.result = "True",
                !.comment = Comment("Successfully added config"),
                !.changes =
                    IF SuppressRemoved(method)
                    THEN [DiffChanges(existing, dict_config)
                             EXCEPT !.removed = NoneView]
                    ELSE DiffChanges(existing, dict_config)]
       ELSE ret' = [ret EXCEPT !.result = "False",
                               !.comment = FailureComment(resp, uri_used)]
    /\ returned' = "ret"
    /\ pc' = "done"
    /\ UNCHANGED <<args, locals, dict_config>>

\* the result goes to the caller; nothing of the invocation is kept
Return ==
    /\ pc = "done"
    /\ pc' = "idle"
    /\ name' = "" /\ uri' = "" /\ method' = ""
    /\ config' = [t |-> "NoneType", d |-> EmptyDict]
    /\ init_uri' = PyNone /\ init_method' = "PATCH"
    /\ test' = FALSE
    /\ ret' = Unbound
    /\ found_working_uri' = FALSE /\ uri_used' = ""
    /\ request_uri' = PyStr("") /\ request_method' = ""
    /\ existing' = EmptyDict /\ dict_config' = EmptyDict
    /\ returned' = "pending"
    /\ calls' = <<>>

NameArgs == {PyStr(""), PyStr("iface1")}
UriArgs == {PyStr(""), PyStr("/a")}
MethodArgs == {PyStr(""), PyStr("PUT"), PyStr("PATCH")}
InitUriArgs == {PyNone, PyStr("/b")}
InitMethodArgs == {"PATCH", "POST"}

Next ==
    \/ /\ pc = "idle"
       /\ \E n \in NameArgs, u \in UriArgs, m \in MethodArgs,
             c \in ConfigArgs, iu \in InitUriArgs, im \in InitMethodArgs,
             t \in BOOLEAN :
               Call(n, u, m, c, iu, im, t)
       /\ UNCHANGED devvars
    \/ /\ pc = "get_primary"
       /\ \E status \in ReadStatuses, body \in Bodies :
               GetPrimary(status, body)
       /\ UNCHANGED devvars
    \/ /\ pc = "get_init"
       /\ \E status \in ReadStatuses, body \in Bodies : GetInit(status, body)
       /\ UNCHANGED devvars
    \/ Compare /\ UNCHANGED devvars
    \/ /\ pc = "set_data"
       /\ \E resp \in WriteResponses : SetData(resp)
       /\ UNCHANGED devvars
    \/ Return /\ UNCHANGED devvars

Spec == Init /\ [][Next]_vars

(* ------------------------------ properties ----------------------------- *)

Reads == {i \in 1..Len(calls) : calls[i].op = "get_data"}
Writes == {i \in 1..Len(calls) : calls[i].op = "set_data"}
Returned == pc = "done"
ValidationFailed ==
    pc # "idle" /\ (name = "" \/ uri = "" \/ method = "" \/ config.t # "dict")

\* the outcome of a returned result
Outcome ==
    IF returned # "ret" THEN "none"
    ELSE IF ret.result = "None" THEN "dry-run-pending"
    ELSE IF ret.result = "True"
         THEN (IF Writes = {} THEN "already-matching" ELSE "applied")
    ELSE IF found_working_uri THEN "failed" ELSE "uri-unresolved"

\* C1: with __opts__["test"] True, config_manage never calls set_data,
\* whatever the reads returned and whether or not current equals desired.
C1_DryRunNeverWrites == test = TRUE => Writes = {}

C1_Witness ==
    /\ Returned /\ test = TRUE /\ found_working_uri
    /\ existing # dict_config
    /\ ret.result = "None"

\* C2: with method PATCH and a write that returned 200, 201 or 204, the
\* result has changes.removed None even when the diff has removed keys, and
\* changes.new and changes.changed are what the diff computed.
C2_PatchRemovedAbsent ==
    (/\ Returned /\ method = "PATCH" /\ Writes # {}
     /\ calls[Len(calls)].status \in {200, 201, 204})
    => /\ DOMAIN ret.changes = {"new", "removed", "changed"}
       /\ ret.changes["removed"].t = "NoneType"
       /\ ret.changes["new"] =
            (IF (DOMAIN dict_config) \ (DOMAIN existing) = {}
             THEN NoneView
             ELSE StrOfPaths((DOMAIN dict_config) \ (DOMAIN existing)))
       /\ ret.changes["changed"] = changed(restDiff(existing, dict_config))

C2_Witness ==
    /\ Returned /\ method = "PATCH" /\ Writes # {}
    /\ calls[Len(calls)].status = 204
    /\ (DOMAIN existing) \ (DOMAIN dict_config) # {}
    /\ ret.changes["removed"].t = "NoneType"
    /\ ret.changes["changed"].t = "str"

\* C3: when validation fails (empty name, uri or method, or a config that is
\* not a dict) the invocation returns without any get_data or set_data call.
C3_ValidationNoIO == ValidationFailed => (calls = <<>> /\ Returned)

C3_Witness ==
    /\ Returned /\ config.t = "OrderedDict"
    /\ name # "" /\ uri # "" /\ method # ""
    /\ calls = <<>>

\* C4: every failure path, validation failures included, returns a result
\* dict with result False and a non-empty comment.
C4_FailureIsStructured ==
    (Returned /\ (ValidationFailed \/ ret.result = "False"))
    => (returned = "ret" /\ ret.result = "False" /\ ret.comment.text # "")

\* C5: when the resolving read (primary or init, status 200) returned a body
\* equal to the desired config, the result is already-matching: result True,
\* comment "Config is already set", changes empty, and no write is made.
C5_EqualIsAlreadyMatching ==
    (/\ Returned /\ found_working_uri
     /\ (existing = config.d \/ existing = JsonRoundTrip(config.d)))
    => /\ returned = "ret"
       /\ ret.result = "True"
       /\ ret.comment.text = "Config is already set"
       /\ DOMAIN ret.changes = {}
       /\ Writes = {}

C5_Witness ==
    /\ Returned /\ uri_used = "init" /\ test = FALSE
    /\ existing = config.d /\ DOMAIN existing # {}
    /\ Outcome = "already-matching"

\* C6: when neither the primary read nor the init read returned 200, the
\* result is uri-unresolved: result False, a non-empty comment, no write and
\* empty changes.
C6_Unresolved ==
    (/\ Len(calls) = 2
     /\ calls[1].op = "get_data" /\ calls[1].status # 200
     /\ calls[2].op = "get_data" /\ calls[2].status # 200)
    => /\ Returned /\ returned = "ret"
       /\ ret.result = "False"
       /\ ret.comment.text # ""
       /\ Writes = {}
       /\ DOMAIN ret.changes = {}
       /\ ~found_working_uri

C6_Witness ==
    /\ Returned /\ Len(calls) = 2 /\ init_uri = PyStr("/b")
    /\ calls[1].status = 404 /\ calls[2].op = "get_data"
    /\ calls[2].status = 404
    /\ Outcome = "uri-unresolved"

\* C7: every set_data call has the arguments (uri, method, desired config)
\* when the primary read returned 200, and (init_uri, init_method, desired
\* config) when the primary read failed and the init read returned 200; the
\* written URI is one whose read returned 200.  The payload is the JSON form
\* of config, which is config itself when all its keys are strings.
C7_WriteTarget ==
    \A i \in Writes :
        /\ calls[i].payload = JsonRoundTrip(config.d)
        /\ (\A k \in DOMAIN config.d : k.t = "str")
              => calls[i].payload = config.d
        /\ calls[1].op = "get_data"
        /\ calls[1].status = 200
              => (calls[i].uri = PyStr(uri) /\ calls[i].method = method)
        /\ calls[1].status # 200
              => /\ calls[2].op = "get_data" /\ calls[2].status = 200
                 /\ calls[i].uri = init_uri
                 /\ calls[i].method = init_method
        /\ \E j \in Reads :
              j < i /\ calls[j].status = 200 /\ calls[j].uri = calls[i].uri

C7_Witness ==
    /\ Returned /\ Len(calls) = 3
    /\ calls[1].status = 404 /\ calls[2].status = 200
    /\ calls[3].op = "set_data"
    /\ calls[3].uri = PyStr("/b") /\ calls[3].method = "POST"
    /\ method = "PUT"
    /\ calls[3].payload = config.d

\* C8: after a write, the outcome is applied (result True) exactly when the
\* write status is 200, 201 or 204; otherwise the result is False, the
\* comment carries the status code, the response dict or body when present
\* and the URI source used (Primary or init), and changes is empty.
C8_WriteOutcome ==
    (Returned /\ Writes # {})
    => LET w == calls[Len(calls)]
       IN  /\ returned = "ret"
           /\ ret.result \in {"True", "False"}
           /\ ret.result = "True" <=> w.status \in {200, 201, 204}
           /\ ret.result = "False"
                => /\ ret.comment.text # ""
                   /\ ret.comment.s = w.status
                   /\ "dict" \in w.keys
                        => ret.comment.w = [t |-> "dict", text |-> w.text]
                   /\ ("dict" \notin w.keys /\ "body" \in w.keys)
                        => ret.comment.w = [t |-> "body", text |-> w.text]
                   /\ w.keys = {} => ret.comment.w.t = "NoneType"
                   /\ ret.comment.u =
                        (IF calls[1].status = 200 THEN "Primary" ELSE "init")
                   /\ DOMAIN ret.changes = {}

C8_Witness ==
    /\ Returned /\ Len(calls) = 3
    /\ calls[3].op = "set_data" /\ calls[3].status = 500
    /\ calls[3].keys = {"body"}
    /\ ret.result = "False"
    /\ ret.comment.u = "init" /\ ret.comment.w.text = "bad"

C10_OneWriteAfterReads ==
    /\ Cardinality(Writes) <= 1
    /\ \A i \in Writes :
          /\ \E j \in Reads : j < i /\ calls[j].status = 200
          /\ \A j \in Reads : j < i

C10_Witness ==
    /\ Returned /\ Cardinality(Writes) = 1 /\ Cardinality(Reads) = 1
    /\ calls[2].status = 201

\* C11 as claimed: when the read of uri did not return 200 and init_uri is
\* None, no read is attempted at init_uri: the invocation makes exactly one
\* read and returns uri-unresolved.
C11_NoReadWithoutInitUri ==
    (pc # "idle" /\ init_uri = PyNone)
    => /\ Cardinality(Reads) <= 1
       /\ (Returned /\ Len(calls) >= 1 /\ calls[1].status # 200)
             => (Cardinality(Reads) = 1 /\ Outcome = "uri-unresolved")

\* C12 as claimed: every result returned for a request whose method is
\* PATCH, a dry-run-pending result included, has the removed view absent.
C12_PatchRemovedAlwaysAbsent ==
    (Returned /\ returned = "ret" /\ method = "PATCH")
    => \/ "removed" \notin DOMAIN ret.changes
       \/ ret.changes["removed"].t = "NoneType"

\* C13 as claimed: a config that is an empty dict is rejected by the
\* validation: outcome failed, no get_data and no set_data.
C13_EmptyConfigRejected ==
    (pc # "idle" /\ config.t = "dict" /\ DOMAIN config.d = {})
    => /\ calls = <<>>
       /\ Returned => (returned = "False" \/ ret.result = "False")

\* C14 as claimed: whenever a diff is reported and a key present in current
\* and desired has different values (a different type included), the changed
\* view mentions the key and the added and removed views do not.
C14_SharedKeyReportedChanged ==
    (Returned /\ DOMAIN ret.changes # {})
    => \A k \in (DOMAIN existing) \cap (DOMAIN dict_config) :
          existing[k] # dict_config[k]
          => /\ ret.changes["changed"].t = "str"
             /\ k \in {it.path : it \in ret.changes["changed"].items}
             /\ k \notin ret.changes["new"].paths
             /\ k \notin ret.changes["removed"].paths

\* C15: when desired is current plus exactly one extra key, changes.new
\* holds exactly that key (in its JSON form) and changes.removed and
\* changes.changed are None, for the dry-run-pending and the applied outcome.
C15_OneExtraKeyIsAdded ==
    LET desired == JsonRoundTrip(config.d)
        extra == (DOMAIN desired) \ (DOMAIN existing)
    IN  (/\ Returned /\ Outcome \in {"dry-run-pending", "applied"}
         /\ (DOMAIN existing) \subseteq (DOMAIN desired)
         /\ Cardinality(extra) = 1
         /\ \A k \in DOMAIN existing : existing[k] = desired[k])
        => /\ DOMAIN ret.changes = {"new", "removed", "changed"}
           /\ ret.changes["new"].t = "str"
           /\ ret.changes["new"].paths = extra
           /\ extra = {JsonKey(k) : k \in DOMAIN config.d} \ (DOMAIN existing)
           /\ ret.changes["removed"].t = "NoneType"
           /\ ret.changes["changed"].t = "NoneType"

C15_Witness ==
    /\ Returned /\ Outcome = "applied" /\ uri_used = "init"
    /\ DOMAIN existing = {PyStr("x")}
    /\ DOMAIN config.d = {PyStr("x"), PyInt(1)}
    /\ existing[PyStr("x")] = config.d[PyStr("x")]
    /\ ret.changes["new"].paths = {PyStr("1")}

\* C16: when the read of uri returned 200, init_uri is never read and the
\* source is Primary, even with an init_uri given; init_uri is read only
\* after the read of uri returned a status other than 200.
C16_PrimaryFirst ==
    /\ (Len(calls) >= 1 /\ calls[1].status = 200)
          => /\ Cardinality(Reads) = 1
             /\ calls[1].uri = PyStr(uri)
             /\ uri_used = "Primary"
             /\ request_uri = PyStr(uri)
    /\ \A i \in Reads :
          i > 1 => /\ calls[1].op = "get_data"
                   /\ calls[1].status # 200
                   /\ calls[i].uri = init_uri

C16_Witness ==
    /\ Returned /\ init_uri = PyStr("/b")
    /\ Len(calls) = 2 /\ calls[1].status = 200
    /\ calls[2].op = "set_data" /\ calls[2].uri = PyStr("/a")
    /\ uri_used = "Primary"

\* C17: the equality test comes before the test-mode test: with test set and
\* current equal to desired the outcome is already-matching (result True);
\* result None is returned exactly when test is set, a URI resolved and
\* current differs from desired.
C17_EqualityBeforeDryRun ==
    LET desired == JsonRoundTrip(config.d)
    IN  /\ ret.result = "None" => Returned
        /\ Returned
             => /\ (test = TRUE /\ found_working_uri /\ existing = desired)
                      => (Outcome = "already-matching" /\ ret.result = "True")
                /\ (returned = "ret" /\ ret.result = "None")
                      <=> (test = TRUE /\ found_working_uri
                             /\ existing # desired)

C17_Witness ==
    /\ Returned /\ test = TRUE /\ found_working_uri
    /\ existing = dict_config /\ DOMAIN existing # {}
    /\ ret.result = "True" /\ Writes = {}

\* C18 as claimed: after a successful write, changes.removed is None when
\* the write was sent with PATCH (also through init_uri with init_method
\* PATCH), and is what the diff computed when it was sent with another method.
C18_SuppressionFollowsWriteMethod ==
    (/\ Returned /\ Writes # {}
     /\ calls[Len(calls)].status \in {200, 201, 204})
    => /\ calls[Len(calls)].method = "PATCH"
             => ret.changes["removed"].t = "NoneType"
       /\ calls[Len(calls)].method # "PATCH"
             => ret.changes["removed"] =
                   (IF (DOMAIN existing) \ (DOMAIN dict_config) = {}
                    THEN NoneView
                    ELSE StrOfPaths((DOMAIN existing) \ (DOMAIN dict_config)))

\* C19 as claimed: whenever the outcome is applied or dry-run-pending, at
\* least one of changes.new, changes.removed, changes.changed is not None.
C19_SomeChangeReported ==
    (Returned /\ Outcome \in {"applied", "dry-run-pending"})
    => \E v \in {"new", "removed", "changed"} : ret.changes[v].t # "NoneType"

(* ------------------- a device that stores what is written -------------- *)

\* what the device holds at a URI to start with: nothing (404) or a body
DevBodies == {b \in Bodies : Cardinality(DOMAIN b) <= 1}
DevEntries(u) ==
    {[status |-> 404, body |-> EmptyDict]}
      \cup {[status |-> 200, body |-> b] :
              b \in (IF u = PyNone THEN {EmptyDict} ELSE DevBodies)}
DevConfigArgs ==
    {c \in ConfigArgs : c.t = "dict" /\ Cardinality(DOMAIN c.d) <= 1}

\* the payload travels as JSON text: the device holds it with string keys
DeviceStore(payload) ==
    [k2 \in {JsonKey(k) : k \in DOMAIN payload} |->
        payload[CHOOSE k \in DOMAIN payload : JsonKey(k) = k2]]
DeviceAccepts(status) == status \in {200, 201, 204}

InitDev ==
    /\ pc = "idle"
    /\ name = "" /\ uri = "" /\ method = ""
    /\ config = [t |-> "NoneType", d |-> EmptyDict]
    /\ init_uri = PyNone /\ init_method = "PATCH"
    /\ test = FALSE
    /\ ret = Unbound
    /\ found_working_uri = FALSE /\ uri_used = ""
    /\ request_uri = PyStr("") /\ request_method = ""
    /\ existing = EmptyDict /\ dict_config = EmptyDict
    /\ returned = "pending"
    /\ calls = <<>>
    /\ device \in {d \in [DevUris -> UNION {DevEntries(u) : u \in DevUris}] :
                     \A u \in DevUris : d[u] \in DevEntries(u)}
    /\ prev = NoPrev

\* a call; once a call has ended applied, later calls repeat its arguments
DevCall(n, u, m, c, iu, im, t) ==
    /\ prev.set => /\ str(n) = prev.name /\ str(u) = prev.uri
                   /\ str(m) = prev.method /\ c = prev.config
                   /\ iu = prev.init_uri /\ im = prev.init_method
    /\ Call(n, u, m, c, iu, im, t)
    /\ UNCHANGED devvars

DevGetPrimary ==
    /\ GetPrimary(device[PyStr(uri)].status, device[PyStr(uri)].body)
    /\ UNCHANGED devvars

DevGetInit ==
    /\ GetInit(device[init_uri].status, device[init_uri].body)
    /\ UNCHANGED devvars

DevCompare == Compare /\ UNCHANGED devvars

\* an accepted write replaces what the device holds at the written URI
DevSetData(resp) ==
    /\ SetData(resp)
    /\ device' = IF DeviceAccepts(resp.status)
                 THEN [device EXCEPT ![request_uri] =
                         [status |-> 200, body |-> DeviceStore(dict_config)]]
                 ELSE device
    /\ UNCHANGED prev

DevReturn ==
    /\ Return
    /\ prev' = IF ~prev.set /\ Outcome = "applied"
               THEN [set |-> TRUE, name |-> name, uri |-> uri,
                     method |-> method, config |-> config,
                     init_uri |-> init_uri, init_method |-> init_method]
               ELSE prev
    /\ UNCHANGED device

NextDev ==
    \/ /\ pc = "idle"
       /\ \E n \in NameArgs, u \in UriArgs, m \in MethodArgs,
             c \in DevConfigArgs, iu \in InitUriArgs, im \in InitMethodArgs,
             t \in BOOLEAN :
               DevCall(n, u, m, c, iu, im, t)
    \/ DevGetPrimary
    \/ DevGetInit
    \/ DevCompare
    \/ /\ pc = "set_data"
       /\ \E resp \in WriteResponses : DevSetData(resp)
    \/ DevReturn

SpecDev == InitDev /\ [][NextDev]_vars

\* C20: against a device that holds an accepted payload at the written URI
\* and returns it on later reads, once a call has ended with outcome applied,
\* every later call with the same arguments (test set or not) ends with
\* outcome already-matching and makes no write.
C20_Converges ==
    (/\ prev.set /\ pc # "idle"
     /\ name = prev.name /\ uri = prev.uri /\ method = prev.method
     /\ config = prev.config /\ init_uri = prev.init_uri
     /\ init_method = prev.init_method)
    => /\ Writes = {}
       /\ pc # "set_data"
       /\ Returned => (Outcome = "already-matching" /\ ret.result = "True")

C20_Witness ==
    /\ prev.set /\ Returned
    /\ uri_used = "init" /\ test = FALSE
    /\ DOMAIN config.d = {PyInt(1)}
    /\ Outcome = "already-matching"

====
